---- MODULE Spec2Model ----
(***************************************************************************)
(* A model of gpt3.py: the loop of run_test that shows the current page of *)
(* a set-top-box application to a language model, runs the command the     *)
(* model (or the operator) gives, re-detects the page and records the step *)
(* in previous_commands.                                                   *)
(*                                                                         *)
(* Text is a sequence of one-character strings, so that strip, split and   *)
(* the regular expressions of describe_page are computed as Python         *)
(* computes them.  In a command, a reply or an objective an element may    *)
(* also be a whole word (a run of characters with no white space in it):   *)
(* strip and split look at white space only.                               *)
(*                                                                         *)
(* A Python value that may be None is a record with a field "type".        *)
(***************************************************************************)
EXTENDS Integers, Sequences, FiniteSets, TLC

VARIABLES
    pc,                 \* the line of run_test that runs next
    interactive,        \* the global set from --no-interactive
    page,               \* run_test's local page
    prev_page,          \* run_test's local prev_page
    error,              \* run_test's local error
    ret,                \* run_test's local ret
    objective,          \* run_test's local objective
    previous_objective, \* input_objective's argument
    previous_commands,  \* run_test's local previous_commands, the history log
    gpt_command,        \* run_test's local gpt_command
    command,            \* run_test's local command
    prompt,             \* the fields of the last prompt sent to the model
    response,           \* get_gpt_command's response.choices[0].text
    line,               \* what input() returned in this iteration, None if not called
    outcome,            \* what the statement exec ran in this iteration did, None before
    detected,           \* what the page detector returned last
    raised,             \* the exception that left run_test, None while it runs
    calls,              \* the calls made so far in this iteration, in order
    iteration           \* the number of times the body of "while True" was entered

vars == <<pc, interactive, page, prev_page, error, ret, objective,
          previous_objective, previous_commands, gpt_command, command, prompt,
          response, line, outcome, detected, raised, calls, iteration>>

\* The number of loop iterations a run of the model starts.
MaxIter == 2

\* The same for the runs of SpecLog, which draw from fewer replies and lines.
MaxLogIter == 3

-----------------------------------------------------------------------------
(* Python values *)

None == [type |-> "NoneType"]

Str(s) == [type |-> "str", val |-> s]

Exception(name) == [type |-> name]

\* bool(v) of a str or None
Truthy(v) == v # None /\ (v.type = "str" => v.val # <<>>)

-----------------------------------------------------------------------------
(* str methods *)

Whitespace == {" ", "\n", "\t"}

RECURSIVE lstrip(_)
lstrip(s) ==
    IF s # <<>> /\ Head(s) \in Whitespace THEN lstrip(Tail(s)) ELSE s

RECURSIVE rstrip(_)
rstrip(s) ==
    IF s # <<>> /\ s[Len(s)] \in Whitespace
    THEN rstrip(SubSeq(s, 1, Len(s) - 1))
    ELSE s

\* s.strip()
strip(s) == rstrip(lstrip(s))

\* s.split("\n")[0]
RECURSIVE first_line(_)
first_line(s) ==
    IF s = <<>> \/ Head(s) = "\n" THEN <<>> ELSE <<Head(s)>> \o first_line(Tail(s))

\* s[n:]
Drop(s, n) == SubSeq(s, n + 1, Len(s))

\* s.startswith(p)
StartsWith(s, p) == Len(s) >= Len(p) /\ SubSeq(s, 1, Len(p)) = p

\* sep.join(lines)
RECURSIVE join(_, _)
join(sep, lines) ==
    IF lines = <<>> THEN <<>>
    ELSE IF Len(lines) = 1 THEN lines[1]
    ELSE lines[1] \o sep \o join(sep, Tail(lines))

-----------------------------------------------------------------------------
(* describe_page *)

IS_VISIBLE == <<"i", "s", "_", "v", "i", "s", "i", "b", "l", "e", "=", "T", "r", "u", "e">>

COMMA_SPACE == <<",", " ">>

FRAME_OPEN == <<"_", "f", "r", "a", "m", "e", "=", "<">>

TESTS_DOT == <<"t", "e", "s", "t", "s", ".">>

DOT_PAGES == <<".", "p", "a", "g", "e", "s">>

UNKNOWN == <<"u", "n", "k", "n", "o", "w", "n">>

\* the character class [a-z]
LowerCase ==
    {"a", "b", "c", "d", "e", "f", "g", "h", "i", "j", "k", "l", "m", "n", "o",
     "p", "q", "r", "s", "t", "u", "v", "w", "x", "y", "z"}

\* the optional group (, )? at the head of s, consumed when it is there
SkipCommaSpace(s) == IF StartsWith(s, COMMA_SPACE) THEN Drop(s, 2) ELSE s

\* re.sub(r"is_visible=True(, )?", "", s): the matches are taken from the
\* left and do not overlap; what is left is not scanned again
RECURSIVE sub_is_visible(_)
sub_is_visible(s) ==
    IF s = <<>> THEN <<>>
    ELSE IF StartsWith(s, IS_VISIBLE)
         THEN sub_is_visible(SkipCommaSpace(Drop(s, Len(IS_VISIBLE))))
         ELSE <<Head(s)>> \o sub_is_visible(Tail(s))

\* the index of the first ">" of s, 0 when it has none
RECURSIVE FirstClose(_)
FirstClose(s) ==
    IF s = <<>> THEN 0
    ELSE IF Head(s) = ">" THEN 1
    ELSE LET k == FirstClose(Tail(s)) IN IF k = 0 THEN 0 ELSE k + 1

\* re.sub(r"_frame=<([^>]+)>(, )?", "", s): after "_frame=<", one or more
\* characters other than ">" and then ">"
RECURSIVE sub_frame(_)
sub_frame(s) ==
    IF s = <<>> THEN <<>>
    ELSE LET rest == Drop(s, Len(FRAME_OPEN))
             k    == FirstClose(rest)
         IN  IF StartsWith(s, FRAME_OPEN) /\ k >= 2
             THEN sub_frame(SkipCommaSpace(Drop(rest, k)))
             ELSE <<Head(s)>> \o sub_frame(Tail(s))

\* the longest prefix of s in [a-z]
RECURSIVE LowerRun(_)
LowerRun(s) ==
    IF s # <<>> /\ Head(s) \in LowerCase
    THEN <<Head(s)>> \o LowerRun(Tail(s))
    ELSE <<>>

\* app_name with the pattern searched at every position, without the "^"
RECURSIVE app_name_unanchored(_)
app_name_unanchored(module) ==
    IF module = <<>> THEN UNKNOWN
    ELSE LET rest == Drop(module, Len(TESTS_DOT))
             run  == LowerRun(rest)
         IN  IF /\ StartsWith(module, TESTS_DOT)
                /\ run # <<>>
                /\ StartsWith(Drop(rest, Len(run)), DOT_PAGES)
             THEN run
             ELSE app_name_unanchored(Tail(module))

\* re.search(r"^tests\.([a-z]+)\.pages", module): group 1, or "unknown"
app_name(module) ==
    LET rest == Drop(module, Len(TESTS_DOT))
        run  == LowerRun(rest)
    IN  IF /\ StartsWith(module, TESTS_DOT)
           /\ run # <<>>
           /\ StartsWith(Drop(rest, Len(run)), DOT_PAGES)
        THEN run
        ELSE UNKNOWN

\* describe_page(page), page a FrameObject whose properties evaluate: p.repr
\* is repr(page) once every property in page._fields was evaluated
describe_page(p) ==
    LET s == sub_frame(sub_is_visible(p.repr))
    IN  <<"<">> \o app_name(p.module) \o <<".">> \o Drop(s, 1)

-----------------------------------------------------------------------------
(* The pages of the application under test *)

\* a page of tests/appletv/pages
Home ==
    [type       |-> "FrameObject",
     is_visible |-> TRUE,
     module     |-> <<"t", "e", "s", "t", "s", ".", "a", "p", "p", "l", "e", "t", "v", ".", "p", "a", "g", "e", "s">>,
     repr       |-> <<"<", "H", "o", "m", "e", "(", "_", "f", "r", "a", "m", "e", "=", "<", "F", ">", ",", " ", "i", "s", "_", "v", "i", "s", "i", "b", "l", "e", "=", "T", "r", "u", "e", ",", " ", "a", "p", "p", "=", "'", "S", "'", ")", ">">>,
     members    |-> << [name |-> <<"_", "i", "t", "e", "r">>, signature |-> <<"()">>],
                       [name |-> <<"s", "e", "l", "e", "c", "t">>, signature |-> <<"()">>] >>]

\* a page of a module outside tests/<app>/pages
Menu ==
    [type       |-> "FrameObject",
     is_visible |-> TRUE,
     module     |-> <<"s", "t", "b", "t", "_", "d", "e", "m", "o", ".", "m", "e", "n", "u">>,
     repr       |-> <<"<", "M", "e", "n", "u", "(", "_", "f", "r", "a", "m", "e", "=", "<", "F", ">", ",", " ", "i", "s", "_", "v", "i", "s", "i", "b", "l", "e", "=", "T", "r", "u", "e", ")", ">">>,
     members    |-> << >>]

\* what next(stbt.detect_pages(), None) can yield when a page is on screen
Pages == {Home, Menu}

\* the page of an app that was launched
YouTubeHome ==
    [type       |-> "FrameObject",
     is_visible |-> TRUE,
     module     |-> <<"t", "e", "s", "t", "s", ".", "a", "p", "p", "l", "e", "t", "v", ".", "p", "a", "g", "e", "s">>,
     repr       |-> <<"<", "Y", "o", "u", "T", "u", "b", "e", "H", "o", "m", "e", "(", "_", "f", "r", "a", "m", "e", "=", "<", "F", ">", ",", " ", "i", "s", "_", "v", "i", "s", "i", "b", "l", "e", "=", "T", "r", "u", "e", ")", ">">>,
     members    |-> << >>]

-----------------------------------------------------------------------------
(* Exceptions *)

\* the base class of each exception class a command raises here
Base ==
    [IndentationError  |-> "SyntaxError",
     TabError          |-> "IndentationError",
     UnboundLocalError |-> "NameError",
     SyntaxError       |-> "Exception",
     NameError         |-> "Exception",
     AttributeError    |-> "Exception",
     FileNotFoundError |-> "OSError",
     OSError           |-> "Exception",
     AssertionError    |-> "Exception",
     APIError          |-> "Exception"]

\* issubclass(c, k)
RECURSIVE issubclass(_, _)
issubclass(c, k) ==
    \/ c = k
    \/ c \in DOMAIN Base /\ issubclass(Base[c], k)

\* ExceptClasses with AssertionError added
ExceptClasses_with_AssertionError ==
    {"SyntaxError", "NameError", "AttributeError", "FileNotFoundError", "AssertionError"}

\* the classes of the except clause of run_test
ExceptClasses == {"SyntaxError", "NameError", "AttributeError", "FileNotFoundError"}

\* Caught as "except Exception" would catch
Caught_any_exception(e) == issubclass(e.type, "Exception")

\* whether "except (SyntaxError, NameError, AttributeError, FileNotFoundError)"
\* catches e
Caught(e) == \E k \in ExceptClasses : issubclass(e.type, k)

-----------------------------------------------------------------------------
(* launch_app *)

\* the names bound at the top level of the module: its imports, its
\* assignments and its functions.  A function of the module finds its global
\* names here.
ModuleGlobals ==
    { "argparse", "inspect", "logging", "os", "re", "sys", "time",
      "contextmanager", "pprint", "openai", "stbt",
      "PROMPT_INTRO", "PROMPT_TEMPLATE", "verbose", "interactive",
      "run_test", "get_gpt_command", "describe_page", "input_objective",
      "launch_app", "press", "debug", "bold", "timeit" }

\* str.lower(), on ASCII text
ascii_uppercase ==
    <<"A", "B", "C", "D", "E", "F", "G", "H", "I", "J", "K", "L", "M",
       "N", "O", "P", "Q", "R", "S", "T", "U", "V", "W", "X", "Y", "Z">>

ascii_lowercase ==
    <<"a", "b", "c", "d", "e", "f", "g", "h", "i", "j", "k", "l", "m",
       "n", "o", "p", "q", "r", "s", "t", "u", "v", "w", "x", "y", "z">>

lower_char(c) ==
    IF \E i \in 1..Len(ascii_uppercase) : ascii_uppercase[i] = c
    THEN ascii_lowercase[CHOOSE i \in 1..Len(ascii_uppercase) : ascii_uppercase[i] = c]
    ELSE c

lower(s) == [i \in 1..Len(s) |-> lower_char(s[i])]

\* s.replace(" ", "")
IsNotSpace(c) == c # " "

replace_spaces(s) == SelectSeq(s, IsNotSpace)

BTSPORT_KEY == <<"b", "t", "s", "p", "o", "r", "t">>

YOUTUBE_KEY == <<"y", "o", "u", "t", "u", "b", "e">>

BT_SPORT == <<"B", "T", " ", "S", "p", "o", "r", "t">>

YOUTUBE == <<"Y", "o", "u", "T", "u", "b", "e">>

\* the dict of line 187: {...}.get(key, default)
get(key, default) ==
    CASE key = BTSPORT_KEY -> BT_SPORT
      [] key = YOUTUBE_KEY -> YOUTUBE
      [] OTHER             -> default

\* launch_app(name): the name it resolves, then Home.launch_app(resolved).
\* "launched" is what the launch action of the home page receives, None when
\* it is not called; looking up a global name that is not bound raises
\* NameError.
launch_app(name) ==
    LET resolved == get(replace_spaces(lower(name)), name)
    IN  IF "Home" \in ModuleGlobals
        THEN [raises |-> None, launched |-> Str(resolved)]
        ELSE [raises |-> Exception("NameError"), launched |-> None]

\* the statement launch_app("name")
LaunchCommand(name) == <<"launch_app(\"">> \o name \o <<"\")">>

IsLaunchCommand(c) ==
    /\ Len(c) >= 2
    /\ c[1] = "launch_app(\""
    /\ c[Len(c)] = "\")"

LaunchName(c) == SubSeq(c, 2, Len(c) - 1)

-----------------------------------------------------------------------------
(* Commands: what the model replies, what the operator types, what exec does *)

PRESS == <<"press('KEY_OK')">>

SELECT == <<"page.select()">>

IF_TRUE == <<"if", " ", "True:">>

FOO == <<"foo">>

PRINT_MISSING == <<"print(page.missing)">>

UNCLOSED == <<"press(">>

OPEN == <<"open('f')">>

ASSERT == <<"assert", " ", "page.app", " ", "==", " ", "'X'">>

\* response.choices[0].text: what the completion can be
Replies ==
    { <<>>,
      <<" ">> \o PRESS \o <<"\n">>,
      <<"\n", "\n", " ">> \o SELECT \o <<" ", "\n">> \o FOO,
      IF_TRUE,
      ASSERT \o <<"\n">> }

\* what input() can return at "Enter python code to run"
OperatorLines ==
    { <<>>,
      <<" ">>,
      <<" ">> \o FOO \o <<" ">>,
      PRINT_MISSING,
      UNCLOSED,
      OPEN }

\* what input() can return at "Objective: "
ObjectiveLines == { <<>>, <<"Open", " ", "YouTube">> }

Ok(v) == [raises |-> None, value |-> v]

Raises(name) == [raises |-> Exception(name), value |-> None]

\* What running the statement c does: the exception it raises, or the value
\* its expression computes.  A text that is none of the commands above is
\* arbitrary code.
ExecOutcomes(c) ==
    CASE c = <<>>          -> {Ok(None)}
      [] c = PRESS         -> {Ok(None)}
      [] c = SELECT        -> {Ok(Home)}
      [] c = IF_TRUE       -> {Raises("IndentationError")}
      [] c = FOO           -> {Raises("NameError")}
      [] c = PRINT_MISSING -> {Raises("AttributeError")}
      [] c = UNCLOSED      -> {Raises("SyntaxError")}
      [] c = OPEN          -> {Raises("FileNotFoundError")}
      [] c = ASSERT        -> {Ok(None), Raises("AssertionError")}
      [] IsLaunchCommand(c) ->
             {[raises |-> launch_app(LaunchName(c)).raises, value |-> None]}
      [] OTHER             -> {Ok(None)} \cup {Raises(n) : n \in DOMAIN Base}

\* exec(command) returns None whatever the statement computed
exec(o) == None

-----------------------------------------------------------------------------
(* get_gpt_command: the prompt *)

\* "    page.{name}{inspect.signature(f)}" for the methods of p whose name
\* does not start with "_"
RECURSIVE command_lines(_)
command_lines(members) ==
    IF members = <<>> THEN <<>>
    ELSE LET m == Head(members)
         IN  (IF StartsWith(m.name, <<"_">>) THEN <<>>
              ELSE << <<" ", " ", " ", " ", "page.">> \o m.name \o m.signature >>)
             \o command_lines(Tail(members))

\* history_line with the outcome c in the place of the command b
history_line_with_outcome(entry) ==
    <<" ", " ", " ", " ">> \o entry[1] \o <<" ", ":", " ">> \o entry[3]

\* f"    {a} : {b}" for a, b, c of one entry of previous_commands
history_line(entry) ==
    <<" ", " ", " ", " ">> \o entry[1] \o <<" ", ":", " ">> \o entry[2]

\* build_prompt with the objective left blank
build_prompt_without_objective(obj, p, history) ==
    [objective         |-> <<>>,
     page              |-> describe_page(p),
     commands          |-> join(<<"\n">>, command_lines(p.members)),
     previous_commands |-> join(<<"\n">>, [i \in 1..Len(history) |-> history_line(history[i])])]

\* the keyword arguments of PROMPT_TEMPLATE.format in get_gpt_command
build_prompt(obj, p, history) ==
    [objective         |-> obj.val,
     page              |-> describe_page(p),
     commands          |-> join(<<"\n">>, command_lines(p.members)),
     previous_commands |-> join(<<"\n">>, [i \in 1..Len(history) |-> history_line(history[i])])]

\* gpt_command.strip().split("\n")[0].strip()
only_first_line(reply) == strip(first_line(strip(reply)))

-----------------------------------------------------------------------------
(* input_objective *)

\* whether input_objective(previous) calls input()
reads_objective(previous, inter) == ~(Truthy(previous) /\ ~inter)

\* input_objective without the assert of line 181
input_objective_without_assert(previous, inter, typed) ==
    IF Truthy(previous) /\ ~inter THEN Ok(previous)
    ELSE Ok(IF ~Truthy(typed) THEN previous ELSE typed)

\* input_objective(previous) when input() returns typed (None when input()
\* is not called): the objective returned, or the AssertionError
input_objective(previous, inter, typed) ==
    IF Truthy(previous) /\ ~inter THEN Ok(previous)
    ELSE LET obj == IF ~Truthy(typed) THEN previous ELSE typed
         IN  IF Truthy(obj) THEN Ok(obj) ELSE Raises("AssertionError")

-----------------------------------------------------------------------------
(* run_test *)

\* choose_command without the strip() of line 90
choose_command_without_strip(inter, typed, gpt) ==
    LET c == IF inter THEN typed ELSE None
    IN  IF ~Truthy(c) THEN Str(gpt) ELSE c

\* lines 87-94: the command that runs, typed being what input() returned
\* (None when it is not called)
choose_command(inter, typed, gpt) ==
    LET c == IF inter THEN Str(strip(typed.val)) ELSE None
    IN  IF ~Truthy(c) THEN Str(gpt) ELSE c

\* history_entry without the branch of line 115
history_entry_ignores_error(prev, cmd, err, new) ==
    <<describe_page(prev), cmd.val, IF new = None THEN <<>> ELSE describe_page(new)>>

\* history_entry describing the page of after the command in the place of
\* the page of before
history_entry_describes_new_page(prev, cmd, err, new) ==
    IF err # None
    THEN <<describe_page(new), cmd.val, <<err.type>>>>
    ELSE <<describe_page(new), cmd.val, describe_page(new)>>

\* lines 115-120: the entry appended to previous_commands
history_entry(prev, cmd, err, new) ==
    IF err # None
    THEN <<describe_page(prev), cmd.val, <<err.type>>>>
    ELSE <<describe_page(prev), cmd.val, describe_page(new)>>

Terminate(e) ==
    /\ pc' = "terminated"
    /\ raised' = e

Init ==
    /\ pc = "start"
    /\ interactive \in BOOLEAN
    /\ page = None
    /\ prev_page = None
    /\ error = None
    /\ ret = None
    /\ objective = None
    /\ previous_objective = None
    /\ previous_commands = <<>>
    /\ gpt_command = <<>>
    /\ command = None
    /\ prompt = None
    /\ response = None
    /\ line = None
    /\ outcome = None
    /\ detected = None
    /\ raised = None
    /\ calls = <<>>
    /\ iteration = 0

\* lines 76-80, with the pages stbt.detect_pages() can find
StartupOn(pages) ==
    /\ pc = "start"
    /\ \E p \in pages \cup {None} :
        /\ page' = p
        /\ detected' = p
        /\ calls' = Append(calls, "detect")
        /\ IF p = None
           THEN /\ Terminate(Exception("AssertionError"))
                /\ UNCHANGED <<prev_page, error>>
           ELSE /\ pc' = "objective"
                /\ prev_page' = None
                /\ error' = None
                /\ UNCHANGED raised
    /\ previous_commands' = <<>>
    /\ UNCHANGED <<interactive, ret, objective, previous_objective, gpt_command,
                   command, prompt, response, line, outcome, iteration>>

Startup == StartupOn(Pages)

\* line 81
InputObjective ==
    /\ pc = "objective"
    /\ \E typed \in (IF reads_objective(previous_objective, interactive)
                     THEN {Str(l) : l \in ObjectiveLines} ELSE {None}) :
        LET r == input_objective(previous_objective, interactive, typed)
        IN  /\ line' = typed
            /\ calls' = IF typed = None THEN calls ELSE Append(calls, "input")
            /\ IF r.raises = None
               THEN /\ objective' = r.value
                    /\ pc' = "query"
                    /\ UNCHANGED raised
               ELSE /\ Terminate(r.raises)
                    /\ UNCHANGED objective
    /\ UNCHANGED <<interactive, page, prev_page, error, ret, previous_objective,
                   previous_commands, gpt_command, command, prompt, response,
                   outcome, detected, iteration>>

\* lines 82-86: get_gpt_command and the first line of its reply, with the
\* completions the model can give
AskModelOn(replies) ==
    /\ pc = "query"
    /\ iteration' = iteration + 1
    /\ line' = None
    /\ outcome' = None
    /\ IF page = None
       THEN \* describe_page(None): None has no _fields
            /\ Terminate(Exception("AttributeError"))
            /\ calls' = <<>>
            /\ UNCHANGED <<prompt, response, gpt_command>>
       ELSE /\ prompt' = build_prompt(objective, page, previous_commands)
            /\ calls' = <<"openai">>
            /\ \E reply \in {Str(r) : r \in replies} \cup {None} :
                IF reply = None
                THEN \* openai.Completion.create raises
                     /\ Terminate(Exception("APIError"))
                     /\ UNCHANGED <<response, gpt_command>>
                ELSE /\ response' = reply
                     /\ gpt_command' = only_first_line(reply.val)
                     /\ pc' = "confirm"
                     /\ UNCHANGED raised
    /\ UNCHANGED <<interactive, page, prev_page, error, ret, objective,
                   previous_objective, previous_commands, command, detected>>

AskModel == AskModelOn(Replies)

\* lines 82-86, for the iterations the model runs
Query ==
    /\ iteration < MaxIter
    /\ AskModel

\* lines 87-94
Confirm ==
    /\ pc = "confirm"
    /\ \E typed \in (IF interactive THEN {Str(l) : l \in OperatorLines} ELSE {None}) :
        /\ line' = typed
        /\ calls' = IF typed = None THEN calls ELSE Append(calls, "input")
        /\ command' = choose_command(interactive, typed, gpt_command)
    /\ pc' = "sleep"
    /\ UNCHANGED <<interactive, page, prev_page, error, ret, objective,
                   previous_objective, previous_commands, gpt_command, prompt,
                   response, outcome, detected, raised, iteration>>

\* Sleep with time.sleep(1) left out
Sleep_without_delay ==
    /\ pc = "sleep"
    /\ prev_page' = page
    /\ pc' = "exec"
    /\ UNCHANGED <<interactive, page, error, ret, objective, previous_objective,
                   previous_commands, gpt_command, command, prompt, response,
                   line, outcome, detected, raised, calls, iteration>>

\* lines 95-96
Sleep ==
    /\ pc = "sleep"
    /\ calls' = Append(calls, "sleep")
    /\ prev_page' = page
    /\ pc' = "exec"
    /\ UNCHANGED <<interactive, page, error, ret, objective, previous_objective,
                   previous_commands, gpt_command, command, prompt, response,
                   line, outcome, detected, raised, iteration>>

\* Exec running the command again after an error it catches
Exec_retries_on_error ==
    /\ pc = "exec"
    /\ calls' = Append(calls, "exec")
    /\ \E o \in ExecOutcomes(command.val) :
        /\ outcome' = [command |-> command.val, raises |-> o.raises, value |-> o.value]
        /\ IF o.raises = None
           THEN /\ ret' = exec(o)
                /\ error' = None
                /\ pc' = "detect"
                /\ UNCHANGED <<page, raised>>
           ELSE /\ ret' = None
                /\ IF Caught(o.raises)
                   THEN /\ page' = None
                        /\ error' = o.raises
                        /\ pc' = "exec"
                        /\ UNCHANGED raised
                   ELSE /\ Terminate(o.raises)
                        /\ UNCHANGED <<page, error>>
    /\ UNCHANGED <<interactive, prev_page, objective, previous_objective,
                   previous_commands, gpt_command, command, prompt, response, line,
                   detected, iteration>>

\* lines 98-105
Exec ==
    /\ pc = "exec"
    /\ calls' = Append(calls, "exec")
    /\ \E o \in ExecOutcomes(command.val) :
        /\ outcome' = [command |-> command.val, raises |-> o.raises, value |-> o.value]
        /\ IF o.raises = None
           THEN /\ ret' = exec(o)
                /\ error' = None
                /\ pc' = "detect"
                /\ UNCHANGED <<page, raised>>
           ELSE /\ ret' = None
                /\ IF Caught(o.raises)
                   THEN /\ page' = None
                        /\ error' = o.raises
                        /\ pc' = "detect"
                        /\ UNCHANGED raised
                   ELSE /\ Terminate(o.raises)
                        /\ UNCHANGED <<page, error>>
    /\ UNCHANGED <<interactive, prev_page, objective, previous_objective,
                   previous_commands, gpt_command, command, prompt, response, line,
                   detected, iteration>>

\* Detect going on with the page of before the command when none is detected
Detect_keeps_stale_page ==
    /\ pc = "detect"
    /\ calls' = Append(calls, "detect")
    /\ \E p \in Pages \cup {None} :
        /\ detected' = p
        /\ page' = IF p = None THEN prev_page ELSE p
    /\ pc' = "record"
    /\ UNCHANGED <<interactive, prev_page, error, ret, objective, previous_objective,
                   previous_commands, gpt_command, command, prompt, response, line,
                   outcome, raised, iteration>>

\* DetectOn with the assert of line 113 left out
DetectOn_without_assert(pages) ==
    /\ pc = "detect"
    /\ IF ret.type = "FrameObject" /\ ret.is_visible
       THEN /\ page' = ret
            /\ UNCHANGED <<calls, detected>>
       ELSE /\ calls' = Append(calls, "detect")
            /\ \E p \in pages \cup {None} :
                /\ detected' = p
                /\ page' = p
    /\ pc' = "record"
    /\ UNCHANGED <<interactive, prev_page, error, ret, objective, previous_objective,
                   previous_commands, gpt_command, command, prompt, response, line,
                   outcome, raised, iteration>>

\* lines 107-113, with the pages stbt.detect_pages() can find
DetectOn(pages) ==
    /\ pc = "detect"
    /\ IF ret.type = "FrameObject" /\ ret.is_visible
       THEN /\ page' = ret
            /\ pc' = "record"
            /\ UNCHANGED <<calls, detected, raised>>
       ELSE /\ calls' = Append(calls, "detect")
            /\ \E p \in pages \cup {None} :
                /\ detected' = p
                /\ page' = p
                /\ IF p = None
                   THEN Terminate(Exception("AssertionError"))
                   ELSE pc' = "record" /\ UNCHANGED raised
    /\ UNCHANGED <<interactive, prev_page, error, ret, objective, previous_objective,
                   previous_commands, gpt_command, command, prompt, response, line,
                   outcome, iteration>>

Detect == DetectOn(Pages)

\* Record with the append left out of the branch of line 115
Record_drops_errors ==
    /\ pc = "record"
    /\ previous_commands' =
           IF error # None THEN previous_commands
           ELSE Append(previous_commands, history_entry(prev_page, command, error, page))
    /\ pc' = "query"
    /\ UNCHANGED <<interactive, page, prev_page, error, ret, objective,
                   previous_objective, gpt_command, command, prompt, response, line,
                   outcome, detected, raised, calls, iteration>>

\* Record with the entry put at the head of the log
Record_prepends ==
    /\ pc = "record"
    /\ previous_commands' =
           <<history_entry(prev_page, command, error, page)>> \o previous_commands
    /\ pc' = "query"
    /\ UNCHANGED <<interactive, page, prev_page, error, ret, objective,
                   previous_objective, gpt_command, command, prompt, response, line,
                   outcome, detected, raised, calls, iteration>>

\* lines 115-120
Record ==
    /\ pc = "record"
    /\ previous_commands' =
           Append(previous_commands, history_entry(prev_page, command, error, page))
    /\ pc' = "query"
    /\ UNCHANGED <<interactive, page, prev_page, error, ret, objective,
                   previous_objective, gpt_command, command, prompt, response, line,
                   outcome, detected, raised, calls, iteration>>

Next ==
    \/ Startup
    \/ InputObjective
    \/ Query
    \/ Confirm
    \/ Sleep
    \/ Exec
    \/ Detect
    \/ Record

Spec == Init /\ [][Next]_vars

-----------------------------------------------------------------------------
(* Longer runs, for the history log: the same program with fewer replies *)
(* of the model and fewer lines of the operator to choose from           *)

LogReplies == { <<"\n", "\n", " ">> \o SELECT \o <<" ", "\n">> \o FOO, IF_TRUE }

LogLines == { <<>>, <<" ">> \o FOO \o <<" ">> }

QueryLog ==
    /\ iteration < MaxLogIter
    /\ AskModel
    /\ raised' # None \/ response'.val \in LogReplies

ConfirmLog ==
    /\ Confirm
    /\ line' = None \/ line'.val \in LogLines

NextLog ==
    \/ Startup
    \/ InputObjective
    \/ QueryLog
    \/ ConfirmLog
    \/ Sleep
    \/ Exec
    \/ Detect
    \/ Record

SpecLog == Init /\ [][NextLog]_vars

-----------------------------------------------------------------------------
(* input_objective with a previous objective: run_test passes none, so the *)
(* argument is drawn here from the values the function takes               *)

InitObjective ==
    \E previous \in {None, Str(<<>>), Str(<<"Watch", " ", "BBC">>)} :
        /\ pc = "start"
        /\ interactive \in BOOLEAN
        /\ page = None
        /\ prev_page = None
        /\ error = None
        /\ ret = None
        /\ objective = None
        /\ previous_objective = previous
        /\ previous_commands = <<>>
        /\ gpt_command = <<>>
        /\ command = None
        /\ prompt = None
        /\ response = None
        /\ line = None
        /\ outcome = None
        /\ detected = None
        /\ raised = None
        /\ calls = <<>>
        /\ iteration = 0

SpecObjective == InitObjective /\ [][NextLog]_vars

-----------------------------------------------------------------------------
(* launch_app in the loop: the model replies launch_app("...") with the    *)
(* spellings below, on a device that shows the home page or the YouTube app *)

LaunchPages == {Home, YouTubeHome}

LaunchNames ==
    { <<"y", "o", "u", "t", "u", "b", "e">>,
      <<"Y", "o", "u", "T", "u", "b", "e">>,
      <<"B", "T", "S", "P", "O", "R", "T">>,
      <<"b", "t", " ", "s", "p", "o", "r", "t">>,
      <<"b", "t", "s", "p", "o", "r", "t">>,
      <<"M", "y", " ", "C", "u", "s", "t", "o", "m", " ", "A", "p", "p">> }

LaunchReplies == {LaunchCommand(n) \o <<"\n">> : n \in LaunchNames}

StartupLaunch == StartupOn(LaunchPages)

QueryLaunch ==
    /\ iteration < MaxIter
    /\ AskModelOn(LaunchReplies)

ConfirmLaunch ==
    /\ Confirm
    /\ line' = None \/ line'.val = <<>>

DetectLaunch == DetectOn(LaunchPages)

NextLaunch ==
    \/ StartupLaunch
    \/ InputObjective
    \/ QueryLaunch
    \/ ConfirmLaunch
    \/ Sleep
    \/ Exec
    \/ DetectLaunch
    \/ Record

SpecLaunch == Init /\ [][NextLaunch]_vars

-----------------------------------------------------------------------------
(* describe_page on its own: the page on screen at startup is drawn from   *)
(* the representations and the module paths below, and the first prompt    *)
(* describes it                                                            *)

\* pieces of repr(page) between "<P(" and ")>"
ReprPieces ==
    { <<>>,
      <<"i", "s", "_", "v", "i", "s">>,
      <<"i", "b", "l", "e", "=", "T", "r", "u", "e">>,
      <<"i", "s", "_", "v", "i", "s", "i", "b", "l", "e", "=", "T", "r", "u", "e">>,
      <<"i", "s", "_", "v", "i", "s", "i", "b", "l", "e", "=">>,
      <<"T", "r", "u", "e">>,
      <<"_", "f", "r", "a", "m", "e", "=", "<", "F", ">">>,
      <<"_", "f", "r", "a", "m", "e", "=", "<">>,
      <<">">>,
      <<",", " ">>,
      <<"x", "=", "1">> }

Reprs == {<<"<", "P", "(">> \o a \o b \o c \o <<")", ">">> : a, b, c \in ReprPieces}

\* type(page).__module__
Modules ==
    { <<"t", "e", "s", "t", "s", ".", "a", "p", "p", "l", "e", "t", "v", ".", "p", "a", "g", "e", "s">>,
      <<"t", "e", "s", "t", "s", ".", "a", "p", "p", "l", "e", "t", "v", ".", "p", "a", "g", "e", "s", ".", "c", "a", "r", "o", "u", "s", "e", "l">>,
      <<"t", "e", "s", "t", "s", ".", "a", "p", "p", "l", "e", "_", "t", "v", ".", "p", "a", "g", "e", "s">>,
      <<"t", "e", "s", "t", "s", ".", "b", "b", "c", "2", ".", "p", "a", "g", "e", "s">>,
      <<"x", ".", "t", "e", "s", "t", "s", ".", "a", "p", "p", "l", "e", "t", "v", ".", "p", "a", "g", "e", "s">>,
      <<"t", "e", "s", "t", "s", ".", "a", "p", "p", "l", "e", "t", "v", ".", "p", "a", "g", "e", "s", "x">>,
      <<"t", "e", "s", "t", "s", ".", "a", "p", "p", "l", "e", "t", "v">>,
      <<"s", "t", "b", "t", "_", "d", "e", "m", "o", ".", "m", "e", "n", "u">> }

DescribePages ==
    { [type |-> "FrameObject", is_visible |-> TRUE, module |-> mod, repr |-> r,
       members |-> << >>] : mod \in Modules, r \in Reprs }

StartupDescribe == StartupOn(DescribePages)

QueryDescribe ==
    /\ iteration = 0
    /\ AskModelOn({PRESS})

NextDescribe ==
    \/ StartupDescribe
    \/ InputObjective
    \/ QueryDescribe

SpecDescribe == Init /\ [][NextDescribe]_vars

-----------------------------------------------------------------------------
(* Properties *)

Last(s) == s[Len(s)]

\* the iterations of the loop that ran to their end: all that were entered
\* when the next one is about to start, all but the current one otherwise
Completed ==
    IF pc = "query" \/ iteration = 0 THEN iteration ELSE iteration - 1

\* the descriptions of the pages the detector yields
PageDescriptions == {describe_page(p) : p \in Pages}

\* the names of SyntaxError, NameError, AttributeError and FileNotFoundError
FourErrorNames ==
    { <<"SyntaxError">>, <<"NameError">>, <<"AttributeError">>, <<"FileNotFoundError">> }

\* the names of these four classes and of their subclasses
RecoverableErrorNames ==
    FourErrorNames \cup { <<"IndentationError">>, <<"TabError">>, <<"UnboundLocalError">> }

\* C1: after N completed iterations of the loop previous_commands has exactly
\* N entries: an iteration that reaches its end appends one entry, after a
\* success and after a caught error alike, and nothing else appends.
C1_OneEntryPerIteration == Len(previous_commands) = Completed

\* C1: two iterations completed, the first with a caught error and the
\* second with a success.
C1_Witness ==
    /\ pc = "query"
    /\ iteration = 2
    /\ Len(previous_commands) = 2
    /\ previous_commands[1][3] \in RecoverableErrorNames
    /\ previous_commands[2][3] \in PageDescriptions

\* C2 as stated: the outcome of every entry of previous_commands is either
\* the description of a detected page or one of the four names SyntaxError,
\* NameError, AttributeError, FileNotFoundError, and not both.
C2_OutcomeIsPageOrOneOfFour ==
    \A i \in 1..Len(previous_commands) :
        (previous_commands[i][3] \in PageDescriptions)
            # (previous_commands[i][3] \in FourErrorNames)

\* C2 amended: the outcome of every entry of previous_commands is either the
\* description of a detected page or the name of the class of the caught
\* exception, which is one of the four classes or a subclass of one of them
\* (IndentationError for "if True:"), and not both.
C2_OutcomeIsPageOrCaughtClass ==
    \A i \in 1..Len(previous_commands) :
        (previous_commands[i][3] \in PageDescriptions)
            # (previous_commands[i][3] \in RecoverableErrorNames)

\* C2: an entry whose outcome is the name of a subclass, next to one whose
\* outcome is a page description.
C2_Witness ==
    /\ Len(previous_commands) = 2
    /\ previous_commands[1][3] = <<"IndentationError">>
    /\ previous_commands[2][3] \in PageDescriptions

\* C3: when the executed command raises an exception that is none of the
\* four classes of the except clause (nor a subclass), the exception leaves
\* run_test in that iteration: no entry is appended for the iteration, the
\* page detector is not polled, and nothing runs after it (no model query).
C3_OtherErrorsPropagate ==
    (/\ outcome # None
     /\ outcome.raises # None
     /\ <<outcome.raises.type>> \notin RecoverableErrorNames)
    => /\ pc = "terminated"
       /\ raised = outcome.raises
       /\ Len(previous_commands) = iteration - 1
       /\ Last(calls) = "exec"
       /\ ~ENABLED Next

\* C3: the second iteration's command raised AssertionError, after a first
\* iteration that was recorded.
C3_Witness ==
    /\ outcome # None
    /\ outcome.raises = Exception("AssertionError")
    /\ pc = "terminated"
    /\ iteration = 2
    /\ Len(previous_commands) = 1

\* C4: when the page detector yields no page after a command was executed
\* (with success or with a caught error), run_test ends with the
\* AssertionError of line 113: no entry is appended for the iteration, the
\* page of before the command is not the current page, and nothing runs any
\* more (no prompt, no model query).
C4_DetectionFailureIsFatal ==
    (/\ iteration > 0
     /\ calls # <<>>
     /\ Last(calls) = "detect"
     /\ detected = None)
    => /\ pc = "terminated"
       /\ raised = Exception("AssertionError")
       /\ Len(previous_commands) = iteration - 1
       /\ page = None
       /\ page # prev_page
       /\ ~ENABLED Next

\* C4: no page is detected after the second command, which raised a caught
\* error.
C4_Witness ==
    /\ iteration = 2
    /\ calls # <<>>
    /\ Last(calls) = "detect"
    /\ detected = None
    /\ error # None
    /\ pc = "terminated"

\* the statement run in this iteration raised one of the four classes
RaisedOneOfFour ==
    /\ outcome # None
    /\ outcome.raises # None
    /\ <<outcome.raises.type>> \in FourErrorNames

\* C5: when the executed command raises one of the four classes of the
\* except clause, the exception does not end the loop: the current page is
\* dropped, the page detector is polled, the entry of the iteration is (the
\* description of the page shown to the model, the chosen command, the name
\* of the class), and the next prompt describes the page detected anew.
C5_CaughtErrorIsRecorded ==
    /\ RaisedOneOfFour =>
        /\ pc = "terminated" => Last(calls) = "detect" /\ detected = None
        /\ pc = "detect" => page = None /\ Last(calls) = "exec"
        /\ pc \in {"record", "query"} =>
               Last(calls) = "detect" /\ page = detected /\ page \in Pages
        /\ pc = "query" =>
               Last(previous_commands) =
                   <<prompt.page, outcome.command, <<outcome.raises.type>>>>
    /\ (/\ pc = "confirm"
        /\ previous_commands # <<>>
        /\ Last(previous_commands)[3] \in FourErrorNames)
       => prompt.page = describe_page(detected)

\* C5: the first command, given on Home, raised NameError; Menu was then
\* detected and is the page of the second prompt.
C5_Witness ==
    /\ pc = "confirm"
    /\ iteration = 2
    /\ previous_commands = << <<describe_page(Home), FOO, <<"NameError">>>> >>
    /\ prompt.page = describe_page(Menu)

\* C6: when the action of a successfully executed command returns a page
\* that is visible, that page becomes the current page and the page detector
\* is not polled in the iteration.
C6_ReturnedPageIsAdopted ==
    (/\ outcome # None
     /\ outcome.raises = None
     /\ outcome.value.type = "FrameObject"
     /\ outcome.value.is_visible
     /\ pc \in {"record", "query", "terminated"})
    => /\ page = outcome.value
       /\ \A i \in 1..Len(calls) : calls[i] # "detect"

\* C7 as stated: in every iteration the delay comes after the command was
\* run and before the detection: execute, delay, detection.
C7_DelayAfterCommand ==
    /\ \A i \in 1..Len(calls) :
           calls[i] = "sleep" => \E j \in 1..(i - 1) : calls[j] = "exec"
    /\ \A i \in 1..Len(calls) :
           (iteration > 0 /\ calls[i] = "detect") =>
               \E j \in 1..(i - 1) : calls[j] = "sleep"

\* C7 amended: in every iteration the delay of one second comes once, after
\* the command was chosen and right before it is run, and the detection
\* follows the command with no delay between them: delay, execute, detection.
C7_DelayBeforeCommand ==
    /\ \A i \in 1..Len(calls) :
           calls[i] = "exec" => i > 1 /\ calls[i - 1] = "sleep"
    /\ \A i \in 1..Len(calls) :
           (iteration > 0 /\ calls[i] = "detect") => i > 1 /\ calls[i - 1] = "exec"
    /\ \A i \in 1..Len(calls) :
           calls[i] = "sleep" => i > 1 /\ calls[i - 1] \in {"openai", "input"}
    /\ Cardinality({i \in 1..Len(calls) : calls[i] = "sleep"}) <= 1
    /\ pc \in {"exec", "detect", "record"} =>
           \E i \in 1..Len(calls) : calls[i] = "sleep"

\* C7: an iteration in which the operator was asked, the command ran and a
\* page was detected.
C7_Witness ==
    /\ pc = "record"
    /\ calls = <<"openai", "input", "sleep", "exec", "detect">>

\* the lines of s, as s.split("\n") gives them
RECURSIVE SplitLines(_)
SplitLines(s) ==
    LET head == first_line(s)
    IN  IF Len(head) = Len(s) THEN <<head>>
        ELSE <<head>> \o SplitLines(Drop(s, Len(head) + 1))

\* the states of an iteration in which the prompt of the iteration is built
\* and previous_commands is still the log the prompt was built from
PromptIsCurrent == pc \in {"confirm", "sleep", "exec", "detect", "record"}

\* C8 as stated: the history of the prompt has one line per entry of
\* previous_commands, in the order of the log, each line made of the first
\* and the third component of its entry: "<previous page> : <outcome>".
C8_HistoryLinesShowOutcome ==
    PromptIsCurrent =>
        prompt.previous_commands =
            join(<<"\n">>,
                 [i \in 1..Len(previous_commands) |->
                     <<" ", " ", " ", " ">> \o previous_commands[i][1]
                         \o <<" ", ":", " ">> \o previous_commands[i][3]])

\* C8 amended: the history of the prompt has one line per entry of
\* previous_commands, in the order of the log, each line made of the first
\* and the second component of its entry, "    <previous page> : <command>";
\* the outcome is the component left out.
C8_HistoryLinesShowCommand ==
    PromptIsCurrent =>
        IF previous_commands = <<>>
        THEN prompt.previous_commands = <<>>
        ELSE LET lines == SplitLines(prompt.previous_commands)
             IN  /\ Len(lines) = Len(previous_commands)
                 /\ \A i \in 1..Len(lines) :
                        lines[i] = <<" ", " ", " ", " ">> \o previous_commands[i][1]
                                       \o <<" ", ":", " ">> \o previous_commands[i][2]

\* C8: a prompt built from a log of two entries with different commands,
\* one of them recorded with an error.
C8_Witness ==
    /\ pc = "confirm"
    /\ Len(previous_commands) = 2
    /\ previous_commands[1][2] = IF_TRUE
    /\ previous_commands[2][2] = SELECT
    /\ Len(SplitLines(prompt.previous_commands)) = 2

\* the states of an iteration after the command was chosen, line being what
\* the operator typed in it
CommandIsChosen ==
    \/ pc \in {"sleep", "exec", "detect", "record"}
    \/ pc = "query" /\ iteration > 0

InputCalls == {i \in 1..Len(calls) : calls[i] = "input"}

\* C9 as stated: in interactive mode an empty operator line leaves the
\* candidate of the model as the command and a line that is not empty
\* replaces it (as typed, or trimmed); in non-interactive mode no line is
\* read and the candidate is the command.
C9_NonEmptyLineReplaces ==
    CommandIsChosen =>
        /\ interactive =>
            /\ line # None
            /\ line.val = <<>> => command.val = gpt_command
            /\ line.val # <<>> => command.val \in {line.val, strip(line.val)}
        /\ ~interactive => line = None /\ command.val = gpt_command

\* C9 amended: one command is in effect per iteration.  In interactive mode
\* one operator line is read: a line that is empty or holds only white space
\* leaves the candidate (the first line of the trimmed reply, trimmed) as
\* the command, any other line, trimmed, replaces it.  In non-interactive
\* mode no line is read and the candidate is the command.  The command that
\* is executed is the one recorded in the entry of the iteration.
C9_OneCommandInEffect ==
    CommandIsChosen =>
        /\ command # None
        /\ gpt_command = strip(first_line(strip(response.val)))
        /\ interactive =>
            /\ line # None
            /\ Cardinality(InputCalls) = 1
            /\ command.val =
                   IF strip(line.val) = <<>> THEN gpt_command ELSE strip(line.val)
        /\ ~interactive =>
            /\ line = None
            /\ InputCalls = {}
            /\ command.val = gpt_command
        /\ outcome # None => outcome.command = command.val
        /\ pc = "query" => Last(previous_commands)[2] = outcome.command

\* C9: the operator typed a blank, so the candidate, the second line of a
\* reply that starts with empty lines, was run and recorded.
C9_Witness ==
    /\ pc = "query"
    /\ interactive
    /\ line = Str(<<" ">>)
    /\ gpt_command = SELECT
    /\ outcome # None
    /\ outcome.command = SELECT
    /\ Last(previous_commands)[2] = SELECT

\* the states right after input_objective returned or raised, line being
\* what the operator typed in it (None when input() was not called)
ObjectiveIsDecided ==
    /\ iteration = 0
    /\ pc \in {"query", "terminated"}
    /\ page # None

\* C10: an empty objective with no previous objective ends run_test with
\* the AssertionError of line 181 before the loop: no prompt, no model
\* query, no command.  An empty objective with a previous objective returns
\* the previous one; in non-interactive mode a previous objective is
\* returned without a call of input().
C10_ObjectiveOrFatal ==
    ObjectiveIsDecided =>
        /\ (line # None /\ line.val = <<>> /\ ~Truthy(previous_objective)) =>
            /\ pc = "terminated"
            /\ raised = Exception("AssertionError")
            /\ objective = None
            /\ prompt = None
            /\ response = None
            /\ outcome = None
            /\ ~ENABLED NextLog
        /\ (line # None /\ line.val = <<>> /\ Truthy(previous_objective)) =>
            /\ pc = "query"
            /\ objective = previous_objective
        /\ (~interactive /\ Truthy(previous_objective)) =>
            /\ line = None
            /\ InputCalls = {}
            /\ pc = "query"
            /\ objective = previous_objective

\* C10: the operator gave an empty objective and there was no previous one.
C10_Witness ==
    /\ ObjectiveIsDecided
    /\ line = Str(<<>>)
    /\ previous_objective = None
    /\ pc = "terminated"

-----------------------------------------------------------------------------
(* launch_app *)

\* C11: in the scenario - objective 'Open YouTube', the home page on screen,
\* the model replying launch_app("youtube") and a newline, the YouTube page
\* detected afterwards - the executor resolves the alias to 'YouTube' and
\* invokes the launch action of the home page successfully, and the entry
\* appended to the history is (description of Home, 'launch_app("youtube")',
\* description of YouTubeHome): its outcome is a page description, not the
\* name of an error.
C11_LaunchScenario ==
    ( /\ pc = "query"
      /\ iteration = 1
      /\ objective = Str(<<"Open", " ", "YouTube">>)
      /\ prompt.page = describe_page(Home)
      /\ response = Str(LaunchCommand(YOUTUBE_KEY) \o <<"\n">>)
      /\ outcome.command = LaunchCommand(YOUTUBE_KEY)
      /\ detected = YouTubeHome )
    => /\ launch_app(LaunchName(outcome.command)).launched = Str(YOUTUBE)
       /\ outcome.raises = None
       /\ Last(previous_commands) =
              <<describe_page(Home), LaunchCommand(YOUTUBE_KEY), describe_page(YouTubeHome)>>
       /\ Last(previous_commands)[3] \notin RecoverableErrorNames

\* C12: launch_app normalizes its argument without regard to case and with
\* spaces removed: whenever a launch_app command has run, the launch action
\* of the home page has received 'BT Sport' if the name lower-cased and
\* without its spaces is 'btsport', 'YouTube' if it is 'youtube', and the
\* name unchanged otherwise.
C12_LaunchNameIsNormalized ==
    (outcome # None /\ IsLaunchCommand(outcome.command))
    => LET name == LaunchName(outcome.command)
           key  == replace_spaces(lower(name))
       IN  launch_app(name).launched =
              Str(IF key = BTSPORT_KEY THEN BT_SPORT
                  ELSE IF key = YOUTUBE_KEY THEN YOUTUBE
                  ELSE name)

-----------------------------------------------------------------------------
(* describe_page *)

\* whether sub occurs in s
Contains(s, sub) ==
    \E i \in 1..(Len(s) - Len(sub) + 1) : SubSeq(s, i, i + Len(sub) - 1) = sub

\* whether s holds "_frame=<", then one character or more that is not ">",
\* then ">"
HasFrameReference(s) ==
    \E i \in 1..(Len(s) - Len(FRAME_OPEN) + 1) :
        /\ SubSeq(s, i, i + Len(FRAME_OPEN) - 1) = FRAME_OPEN
        /\ \E j \in (i + Len(FRAME_OPEN) + 1)..Len(s) :
               /\ s[j] = ">"
               /\ \A k \in (i + Len(FRAME_OPEN))..(j - 1) : s[k] # ">"

\* C13: for every page representation, the description has neither
\* 'is_visible=True' nor a '_frame=<...>' reference left in it, and the two
\* substitutions applied to it again give the same text.
C13_StrippingIsCompleteAndIdempotent ==
    PromptIsCurrent
    => /\ ~Contains(prompt.page, IS_VISIBLE)
       /\ ~HasFrameReference(prompt.page)
       /\ sub_frame(sub_is_visible(prompt.page)) = prompt.page

\* the parts of s between the dots, as s.split(".") gives them
RECURSIVE Segments(_)
Segments(s) ==
    IF \E i \in 1..Len(s) : s[i] = "."
    THEN LET k == CHOOSE i \in 1..Len(s) : s[i] = "." /\ \A j \in 1..(i - 1) : s[j] # "."
         IN  <<SubSeq(s, 1, k - 1)>> \o Segments(Drop(s, k))
    ELSE <<s>>

TESTS == <<"t", "e", "s", "t", "s">>

PAGES == <<"p", "a", "g", "e", "s">>

\* C14 as stated: a path tests.<appName>.pages... gives exactly <appName>, a
\* path with no segment tests followed by a name and by pages gives
\* 'unknown', and the description starts with '<', the name and '.'.
C14_AppNameIsSegmentAfterTests ==
    PromptIsCurrent
    => LET seg == Segments(page.module)
       IN  /\ (Len(seg) >= 3 /\ seg[1] = TESTS /\ seg[3] = PAGES)
               => StartsWith(prompt.page, <<"<">> \o seg[2] \o <<".">>)
           /\ (~ \E i \in 1..(Len(seg) - 2) : seg[i] = TESTS /\ seg[i + 2] = PAGES)
               => StartsWith(prompt.page, <<"<">> \o UNKNOWN \o <<".">>)

\* whether module is "tests.", then n lower-case letters, then ".pages", then
\* anything
IsTestsPagesPath(module, n) ==
    /\ n >= 1
    /\ Len(module) >= Len(TESTS_DOT) + n + Len(DOT_PAGES)
    /\ SubSeq(module, 1, Len(TESTS_DOT)) = TESTS_DOT
    /\ \A i \in (Len(TESTS_DOT) + 1)..(Len(TESTS_DOT) + n) : module[i] \in LowerCase
    /\ SubSeq(module, Len(TESTS_DOT) + n + 1, Len(TESTS_DOT) + n + Len(DOT_PAGES)) = DOT_PAGES

\* C14, amended: a module path that starts with "tests.", one or more
\* lower-case ASCII letters and ".pages" gives exactly those letters as the
\* app name; every other path gives 'unknown'; the description starts with
\* '<', the name and '.', and goes on with the stripped representation after
\* its first character.
C14_AppNameIsLowerCaseRunAtStart ==
    PromptIsCurrent
    => LET module == page.module
           lengths == {n \in 1..Len(module) : IsTestsPagesPath(module, n)}
           rest == Drop(sub_frame(sub_is_visible(page.repr)), 1)
       IN  IF lengths # {}
           THEN \E n \in lengths :
                   prompt.page = <<"<">> \o SubSeq(module, Len(TESTS_DOT) + 1, Len(TESTS_DOT) + n) \o <<".">> \o rest
           ELSE prompt.page = <<"<">> \o UNKNOWN \o <<".">> \o rest

\* the first prompt describes a page of a module under tests/appletv/pages
C14_Witness ==
    /\ pc = "confirm"
    /\ page.module = <<"t", "e", "s", "t", "s", ".", "a", "p", "p", "l", "e", "t", "v", ".", "p", "a", "g", "e", "s", ".", "c", "a", "r", "o", "u", "s", "e", "l">>
    /\ StartsWith(prompt.page, <<"<", "a", "p", "p", "l", "e", "t", "v", ".", "P", "(">>)

-----------------------------------------------------------------------------
(* The current page *)

\* C15: whenever the loop builds a prompt or queries the model the current
\* page is a page: page is None only before startup, between a caught error
\* and the detection that follows it, and once the run has ended; the prompt
\* describes the current page; and when no page is detected at startup the
\* run ends before any prompt is built or any query made.
C15_PageIsValidAtEveryPrompt ==
    /\ page = None => pc \in {"start", "detect", "terminated"}
    /\ (pc = "detect" /\ page = None) => error # None
    /\ page # None => page.type = "FrameObject"
    /\ PromptIsCurrent /\ pc # "record"
           => prompt.page \in PageDescriptions
    /\ pc = "confirm" => prompt.page = describe_page(page)
    /\ raised # Exception("AttributeError")
    /\ (iteration = 0 /\ calls = <<"detect">> /\ detected = None)
           => /\ pc = "terminated"
              /\ raised = Exception("AssertionError")
              /\ prompt = None
              /\ response = None

\* the second prompt is built after a caught error, from the page detected
\* after it
C15_Witness ==
    /\ pc = "confirm"
    /\ iteration = 2
    /\ error # None
    /\ Last(previous_commands)[3] \in FourErrorNames
    /\ page = detected
    /\ prompt.page = describe_page(detected)

-----------------------------------------------------------------------------
(* The history log *)

\* whether s is a prefix of t
IsPrefix(s, t) == Len(s) <= Len(t) /\ SubSeq(t, 1, Len(s)) = s

\* C16: the history log only grows at its end - in every step the log of
\* before is a prefix of the log of after, so the log of any earlier state is
\* a prefix of the current one - and every prompt renders all the entries
\* appended so far, one line each, from the oldest to the newest.
C16_LogIsAppendOnlyAndRenderedInOrder ==
    /\ [][IsPrefix(previous_commands, previous_commands')]_vars
    /\ [](PromptIsCurrent =>
             LET lines == IF prompt.previous_commands = <<>> THEN <<>>
                          ELSE SplitLines(prompt.previous_commands)
             IN  /\ Len(lines) = Len(previous_commands)
                 /\ Len(lines) = iteration - 1
                 /\ \A i \in 1..Len(lines) :
                        StartsWith(lines[i],
                                   <<" ", " ", " ", " ">> \o previous_commands[i][1]
                                       \o <<" ", ":", " ">>))

\* the third prompt is built from a log of two entries that differ
C16_Witness ==
    /\ pc = "confirm"
    /\ iteration = 3
    /\ Len(previous_commands) = 2
    /\ previous_commands[1] # previous_commands[2]
    /\ Len(SplitLines(prompt.previous_commands)) = 2

-----------------------------------------------------------------------------
(* One query and one execution per iteration *)

\* how many times the iteration under way has called what
Count(what) == Cardinality({i \in 1..Len(calls) : calls[i] = what})

\* C17: within one iteration the model is queried exactly once and the
\* command is executed exactly once: after a caught error the command is not
\* run again and the model is not asked again in that iteration, and the
\* next query comes only after a detection and the append to the history.
C17_OneQueryOneExecutionPerIteration ==
    /\ Count("openai") <= 1
    /\ Count("exec") <= 1
    /\ pc \in {"confirm", "sleep", "exec"}
           => Count("openai") = 1 /\ Count("exec") = 0
    /\ (pc \in {"detect", "record"} \/ (pc = "query" /\ iteration > 0))
           => Count("openai") = 1 /\ Count("exec") = 1
    /\ (pc = "query" /\ iteration > 0)
           => /\ Last(calls) = "detect"
              /\ detected = page
              /\ Len(previous_commands) = iteration
              /\ Last(previous_commands)[2] = outcome.command

\* the second iteration is over, its command raised an error that was
\* caught, and the calls of the iteration are one query, the delay, one
\* execution and one detection
C17_Witness ==
    /\ pc = "query"
    /\ iteration = 2
    /\ outcome.raises # None
    /\ error = outcome.raises
    /\ calls = <<"openai", "sleep", "exec", "detect">>
    /\ Len(previous_commands) = 2

-----------------------------------------------------------------------------
(* The objective *)

\* C18: the objective persists - once input_objective has returned, no step
\* of the loop changes objective - and the objective of every prompt is that
\* objective, which is not empty.
C18_ObjectivePersists ==
    /\ [][(objective # None \/ pc \notin {"start", "objective"})
              => objective' = objective]_vars
    /\ [](objective # None
             => /\ objective.val # <<>>
                /\ objective \in {Str(l) : l \in ObjectiveLines} \cup {previous_objective})
    /\ [](prompt # None => prompt.objective = objective.val)

\* the third prompt, built after a caught error, carries the objective that
\* input_objective returned at startup, here the previous objective
C18_Witness ==
    /\ pc = "confirm"
    /\ iteration = 3
    /\ error # None
    /\ previous_objective = Str(<<"Watch", " ", "BBC">>)
    /\ objective = previous_objective
    /\ prompt.objective = <<"Watch", " ", "BBC">>

-----------------------------------------------------------------------------
(* The chain of pages in the history *)

\* C19: the first component of each entry is the description of the page
\* shown in the prompt of its iteration, and consecutive entries chain: when
\* the outcome of an entry is a page description, it is the first component
\* of the next entry; when it is an error name, the first component of the
\* next entry is the description of the page detected after the error.
C19_HistoryChainsPages ==
    /\ (pc = "query" /\ iteration > 0)
           => Last(previous_commands)[1] = prompt.page
    /\ (pc \in {"confirm", "sleep", "exec"} /\ previous_commands # <<>>)
           => LET outcome_of_last == Last(previous_commands)[3]
              IN  /\ outcome_of_last \in PageDescriptions
                         => prompt.page = outcome_of_last
                  /\ outcome_of_last \notin PageDescriptions
                         => /\ outcome_of_last \in RecoverableErrorNames
                            /\ prompt.page = describe_page(detected)
    /\ \A i \in 1..(Len(previous_commands) - 1) :
           previous_commands[i][3] \in PageDescriptions
               => previous_commands[i + 1][1] = previous_commands[i][3]

\* three entries: the first command, on Home, raised an error and Menu was
\* detected after it; the second, on Menu, ended on Home; the third starts
\* on Home
C19_Witness ==
    /\ pc = "query"
    /\ Len(previous_commands) = 3
    /\ previous_commands[1][1] = describe_page(Home)
    /\ previous_commands[1][3] \in RecoverableErrorNames
    /\ previous_commands[2][1] = describe_page(Menu)
    /\ previous_commands[2][3] = describe_page(Home)
    /\ previous_commands[3][1] = describe_page(Home)

-----------------------------------------------------------------------------
(* assert and print *)

\* C20: a command "assert page.property == value" whose comparison is false
\* raises AssertionError, which is not in the except clause: the run ends and
\* the iteration appends no entry.  A command "print(page.missing)" raises
\* AttributeError, which is caught: the run goes on and the entry of the
\* iteration has the outcome 'AttributeError'.
C20_AssertIsFatalMissingAttributeIsNot ==
    /\ (outcome # None /\ outcome.command = ASSERT
            /\ outcome.raises = Exception("AssertionError"))
           => /\ pc = "terminated"
              /\ raised = Exception("AssertionError")
              /\ Len(previous_commands) = iteration - 1
    /\ (outcome # None /\ outcome.command = PRINT_MISSING)
           => /\ outcome.raises = Exception("AttributeError")
              /\ error = Exception("AttributeError")
              /\ pc \in {"detect", "record", "query", "terminated"}
              /\ pc = "terminated"
                     => detected = None /\ raised = Exception("AssertionError")
              /\ pc # "terminated" => raised = None
              /\ pc = "query"
                     => Last(previous_commands)
                            = <<prompt.page, PRINT_MISSING, <<"AttributeError">>>>

\* the first iteration recorded print(page.missing) with 'AttributeError',
\* and the false assert of the second has ended the run with one entry
C20_Witness ==
    /\ pc = "terminated"
    /\ iteration = 2
    /\ outcome # None
    /\ outcome.command = ASSERT
    /\ raised = Exception("AssertionError")
    /\ detected # None
    /\ Len(previous_commands) = 1
    /\ previous_commands[1][2] = PRINT_MISSING
    /\ previous_commands[1][3] = <<"AttributeError">>

====
